---- MODULE Spec2Model ----
(***************************************************************************)
(* Model of the BatchExecutor of extractor-helpers (batch traversal and    *)
(* processing engine) together with the Provider it calls back into.       *)
(*                                                                         *)
(* One atomic step of the model is one run-to-completion slice of the      *)
(* JavaScript event loop: from the resumption of an await (a Provider call *)
(* settling, a timer firing, an eachLimit promise resolving) to the next   *)
(* await.  Items are objects {id, TRAVERSAL_RETRY}; TRAVERSAL_RETRY =      *)
(* FALSE stands for the property being undefined.                          *)
(***************************************************************************)
EXTENDS Integers, Sequences, FiniteSets, TLC

\* ---------------------------------------------------------------- bounds
TreeSize == 3        \* number of nodes of the tree the Provider exposes
MaxThrows == 2       \* Provider calls that may throw in one behaviour
MaxStarts == 3       \* job ids the JobHelper generates in one behaviour
MaxCallers == 2      \* callers of the JobHelper that may have a call in progress

\* ------------------------------------------------------- program constants
DEFAULT_LIMIT == 1

VARIABLES
  errors,            \* #errors: sequence of [method, node]
  processed,         \* #processed
  traversed,         \* #traversed
  processingQueue,   \* #processingQueue
  traversalQueue,    \* #traversalQueue
  processingBatch,   \* #processingBatch
  traversalBatch,    \* #traversalBatch
  moreNodes,         \* #moreNodes
  running,           \* #running
  config,            \* #config (the four concurrency fields; 0 = not set)
  provider,          \* #provider: which Provider the constructor was given
  pc,                \* position of the entry point: idle, waiting, joining, returned;
                     \* failed when the constructor threw (there is no executor)
  mode,              \* which entry point runs: none, traverse, process
  tpc,               \* position of #startTraversalQueueProcessor: off, batch, resume, done
  ppc,               \* position of #startProcessorQueueProcessor: off, wait, batch, resume, done
  tw,                \* eachLimit over traversalBatch: stage of each member
  pw,                \* eachLimit over processingBatch: stage of each member
  result,            \* the BatchResult returned (a record), or <<>> before the return
  \* history (observations of the run, never read by the actions' guards
  \* except the throw budget)
  restored,          \* whether setState was called
  start,             \* queues and counters when the run started
  stopped,           \* stop() was called during the run
  atStop,            \* queues and in-flight work when stop() was called
  attempts,          \* id -> number of #traverseNode invocations (hasMore calls)
  requeued,          \* id -> number of retry re-enqueues
  procCalls,         \* id -> number of provider.process invocations
  failed,            \* id -> number of #traverseNode invocations that threw
  travOk,            \* id -> number of #traverseNode invocations that succeeded
  procFailed,        \* id -> number of provider.process invocations that threw
  throws,            \* number of Provider calls that threw
  pulledT,           \* number of items pulled into traversal batches
  pulledP,           \* number of items pulled into processing batches
  \* the JobHelper and the settings store behind it
  settings,          \* the stored settings item of the source
  calls,             \* caller -> the JobHelper call it has in progress or made last
  jobState,          \* history: job id -> none, started, ended
  issued             \* number of job ids generated so far

state == <<errors, processed, traversed, processingQueue, traversalQueue,
           processingBatch, traversalBatch>>
ctl == <<moreNodes, running, config, provider, pc, mode, tpc, ppc, tw, pw,
         result>>
hist == <<restored, start, stopped, atStop, attempts, requeued,
          procCalls,
          failed, travOk, procFailed, throws, pulledT, pulledP>>
job == <<settings, calls, jobState, issued>>
vars == <<state, ctl, hist, job>>

\* ------------------------------------------------------------- the items
Ids == 1..TreeSize

Item(n) == [id |-> n, TRAVERSAL_RETRY |-> FALSE]

\* { ...node, TRAVERSAL_RETRY: true }
RetryCopy(node) == [node EXCEPT !.TRAVERSAL_RETRY = TRUE]

Min(S) == CHOOSE x \in S : \A y \in S : x <= y

SeqSet(s) == {s[i] : i \in 1..Len(s)}

\* ----------------------------------------------------------- the Provider
\* The family tree of the test 'can traverse tree'.  Every value of the
\* object graph is a node: the eight objects and their eight name strings.
\*   21 familyTree   22 'Sue'     23 child (Dan)   24 child2 (Megan)
\*   25 child3 (Mara)            26 'Dan'         27 Sarah   28 Will
\*   29 'Megan'      30 Charles   31 Clara         32 'Mara'
\*   33 'Sarah'      34 'Will'    35 'Charles'     36 'Clara'
FamilyIds == 21..36

FamilyStrings == {22, 26, 29, 32, 33, 34, 35, 36}

\* variant: the name strings are not values of their objects
FamilyValuesNoNames(n) ==
  CASE n = 21 -> <<23, 24, 25>>
    [] n = 23 -> <<27, 28>>
    [] n = 24 -> <<30, 31>>
    [] OTHER -> <<>>

\* Object.keys(node).map((k) => node[k])
FamilyValues(n) ==
  CASE n = 21 -> <<22, 23, 24, 25>>
    [] n = 23 -> <<26, 27, 28>>
    [] n = 24 -> <<29, 30, 31>>
    [] n = 25 -> <<32>>
    [] n = 27 -> <<33>>
    [] n = 28 -> <<34>>
    [] n = 30 -> <<35>>
    [] n = 31 -> <<36>>
    [] OTHER -> <<>>

\* A tree provider in the shape of the TreeProvider of the tests.  Besides
\* the family tree it exposes a second tree whose node n has the children 2n
\* and 2n+1 that exist; there the odd nodes are to be processed, so that a
\* node can both have children and require processing (the root) and a leaf
\* can require none (node 2 of a tree of three).
ProviderHasMore(n) ==
  IF n \in FamilyIds THEN n \notin FamilyStrings ELSE 2 * n <= TreeSize

ProviderGetBatch(n) ==
  IF n \in FamilyIds
  THEN [k \in 1..Len(FamilyValues(n)) |-> Item(FamilyValues(n)[k])]
  ELSE IF 2 * n + 1 <= TreeSize THEN <<Item(2 * n), Item(2 * n + 1)>>
  ELSE IF 2 * n <= TreeSize THEN <<Item(2 * n)>>
  ELSE <<>>

ProviderShouldProcess(n) ==
  IF n \in FamilyIds THEN n \in FamilyStrings ELSE n % 2 = 1

\* ------------------------------------------------------------ BatchConfig
NoConfig ==
  [processLimit |-> 0, processBatchSize |-> 0,
   traversalLimit |-> 0, traversalBatchSize |-> 0]

Configs ==
  { NoConfig,
    [processLimit |-> 0, processBatchSize |-> 2,
     traversalLimit |-> 2, traversalBatchSize |-> 1] }

\* { processBatchSize: 2, traversalBatchSize: 2, waitDuration: 10 }
FamilyConfig ==
  [processLimit |-> 0, processBatchSize |-> 2,
   traversalLimit |-> 0, traversalBatchSize |-> 2]

\* this.#config.processLimit || this.#config.processBatchSize || DEFAULT_LIMIT
ProcessLimit ==
  IF config.processLimit # 0 THEN config.processLimit
  ELSE IF config.processBatchSize # 0 THEN config.processBatchSize
  ELSE DEFAULT_LIMIT

\* this.#config.traversalLimit || this.#config.traversalBatchSize || DEFAULT_LIMIT
TraversalLimit ==
  IF config.traversalLimit # 0 THEN config.traversalLimit
  ELSE IF config.traversalBatchSize # 0 THEN config.traversalBatchSize
  ELSE DEFAULT_LIMIT

\* --------------------------------------------------------------- eachLimit
\* eachLimit(batch, limit, fn) starts fn on the first `limit` members, in
\* index order; each member that settles starts the next one not started.
\* variant: every member of the batch is started at once
StartStagesAll(n, limit, stage) == [i \in 1..n |-> stage]

StartStages(n, limit, stage) ==
  [i \in 1..n |-> IF i <= limit THEN stage ELSE "queued"]

Started(n, limit) == {i \in 1..n : i <= limit}

NextQueued(w) == {j \in DOMAIN w : w[j] = "queued"}

\* variant: the member started next is the last one queued
SettleStartsLast(w, i, stage) ==
  LET w1 == [w EXCEPT ![i] = "finished"]
      last == CHOOSE x \in NextQueued(w1) : \A y \in NextQueued(w1) : y <= x
  IN IF NextQueued(w1) # {} THEN [w1 EXCEPT ![last] = stage]
     ELSE w1

\* member i settles; the next queued member (if any) is started at `stage`
Settle(w, i, stage) ==
  LET w1 == [w EXCEPT ![i] = "finished"]
  IN IF NextQueued(w1) # {} THEN [w1 EXCEPT ![Min(NextQueued(w1))] = stage]
     ELSE w1

AllFinished(w) == \A j \in DOMAIN w : w[j] = "finished"

\* id -> how many of the members `idx` of `batch` carry that id
CountIds(batch, idx) ==
  [n \in DOMAIN attempts |-> Cardinality({i \in idx : batch[i].id = n})]

Plus(f, g) == [n \in DOMAIN f |-> f[n] + g[n]]

\* the ids of the nodes of the tree the run is about
NodeIds == IF provider = "FamilyProvider" THEN FamilyIds ELSE Ids

Zero == [n \in NodeIds |-> 0]

\* --------------------------------------------------------------- JobHelper
\* The JobHelper of job-helper.js over the SettingsStore (one DynamoDB item
\* per source: getSettings reads the item, putSettings replaces the whole
\* item, conditionalPutSettings replaces it if the condition holds on the
\* stored item).  A job id is <<type, n>> for the n-th id generated
\* (randomUUID); <<>> is an absent property.  The timestamps are not kept:
\* lastJobDone holds the id of the job whose completion wrote it, and the
\* cursor a job reports is its id.  One step is one store operation
\* together with the code of the call that runs up to the next await.
Callers == 1..MaxCallers

\* JobHelper.JOB_TYPE; "OTHER" is any string that is not a job type
JobTypes == {"FULL", "UPDATE"}

StartArgs == JobTypes \cup {"OTHER"}

JobIds == JobTypes \X (1..MaxStarts)

NoJob == <<>>

\* the settings item of a source that never ran a job
NoSettings ==
  [currentJobId |-> NoJob, updateJobId |-> NoJob,
   currentJobStatus |-> "undefined", cursor |-> NoJob, lastJobDone |-> NoJob]

NoCall ==
  [op |-> "none", arg |-> NoJob, pc |-> "returned", local |-> NoSettings,
   result |-> "none"]

\* static isUpdateJob(jobId)
IsUpdateJob(jobId) == jobId[1] = "UPDATE"

\* static isCurrentRunningJob(sourceSettings, jobId)
IsCurrentRunningJob(sourceSettings, jobId) ==
  IF IsUpdateJob(jobId) THEN sourceSettings.updateJobId = jobId
  ELSE sourceSettings.currentJobId = jobId

\* the state of the store and of the callers before any call
JobFields ==
  /\ settings = NoSettings
  /\ calls = [c \in Callers |-> NoCall]
  /\ jobState = [j \in JobIds |-> "none"]
  /\ issued = 0

\* start(sourceId, type) up to the await of conditionalPutSettings:
\* getSettings returns the stored item, the job id is generated and set on
\* the local copy; a type that is no job type throws 400
JobStart(c, type) ==
  /\ calls[c].pc = "returned"
  /\ issued < MaxStarts
  /\ IF type = "FULL"
     THEN /\ calls' = [calls EXCEPT ![c] =
                 [op |-> "start", arg |-> <<"FULL", issued + 1>>, pc |-> "put",
                  local |-> [settings EXCEPT
                               !.currentJobId = <<"FULL", issued + 1>>,
                               !.currentJobStatus = "RUNNING"],
                  result |-> "none"]]
          /\ issued' = issued + 1
     ELSE IF type = "UPDATE"
     THEN /\ calls' = [calls EXCEPT ![c] =
                 [op |-> "start", arg |-> <<"UPDATE", issued + 1>>, pc |-> "put",
                  local |-> [settings EXCEPT
                               !.updateJobId = <<"UPDATE", issued + 1>>],
                  result |-> "none"]]
          /\ issued' = issued + 1
     ELSE /\ calls' = [calls EXCEPT ![c] =
                 [op |-> "start", arg |-> NoJob, pc |-> "returned",
                  local |-> NoSettings, result |-> "400"]]
          /\ issued' = issued
  /\ UNCHANGED <<state, ctl, hist, settings, jobState>>

\* attribute_not_exists(jobIdProperty) on the stored item
StartCondition(jobId) ==
  IF IsUpdateJob(jobId) THEN settings.updateJobId = NoJob
  ELSE settings.currentJobId = NoJob

\* conditionalPutSettings settles: the local copy replaces the stored item
\* and the job id is returned, or the condition fails and start throws 409
JobStartPut(c) ==
  /\ calls[c].op = "start"
  /\ calls[c].pc = "put"
  /\ IF StartCondition(calls[c].arg)
     THEN /\ settings' = calls[c].local
          /\ jobState' = [jobState EXCEPT ![calls[c].arg] = "started"]
          /\ calls' = [calls EXCEPT ![c].pc = "returned", ![c].result = "jobId"]
     ELSE /\ settings' = settings
          /\ jobState' = jobState
          /\ calls' = [calls EXCEPT ![c].pc = "returned", ![c].result = "409"]
  /\ UNCHANGED <<state, ctl, hist, issued>>

\* the jobs a caller can name: those start has returned
KnownJobs == {j \in JobIds : jobState[j] # "none"}

\* stop(jobId, sourceId) up to the await of putSettings, or to its end when
\* the job is not the current one
JobStop(c, jobId) ==
  /\ calls[c].pc = "returned"
  /\ jobId \in KnownJobs
  /\ jobState' = [jobState EXCEPT ![jobId] = "ended"]
  /\ calls' = [calls EXCEPT ![c] =
       IF IsCurrentRunningJob(settings, jobId)
       THEN [op |-> "stop", arg |-> jobId, pc |-> "put",
             local |-> IF IsUpdateJob(jobId)
                       THEN [settings EXCEPT !.updateJobId = NoJob]
                       ELSE [settings EXCEPT !.currentJobStatus = "STOPPED",
                                             !.currentJobId = NoJob],
             result |-> "none"]
       ELSE [op |-> "stop", arg |-> jobId, pc |-> "returned",
             local |-> NoSettings, result |-> "skipped"]]
  /\ UNCHANGED <<state, ctl, hist, settings, issued>>

\* complete(jobId, sourceId, cursor) up to the await of putSettings, or to
\* its end when the job is not the current one
JobComplete(c, jobId) ==
  /\ calls[c].pc = "returned"
  /\ jobId \in KnownJobs
  /\ jobState' = [jobState EXCEPT ![jobId] = "ended"]
  /\ calls' = [calls EXCEPT ![c] =
       IF IsCurrentRunningJob(settings, jobId)
       THEN [op |-> "complete", arg |-> jobId, pc |-> "put",
             local |-> IF IsUpdateJob(jobId)
                       THEN [settings EXCEPT !.updateJobId = NoJob,
                                             !.lastJobDone = jobId,
                                             !.cursor = jobId]
                       ELSE [settings EXCEPT !.currentJobId = NoJob,
                                             !.currentJobStatus = "COMPLETE",
                                             !.lastJobDone = jobId,
                                             !.cursor = jobId],
             result |-> "none"]
       ELSE [op |-> "complete", arg |-> jobId, pc |-> "returned",
             local |-> NoSettings, result |-> "skipped"]]
  /\ UNCHANGED <<state, ctl, hist, settings, issued>>

\* putSettings of stop or complete settles: the local copy replaces the
\* stored item
JobPut(c) ==
  /\ calls[c].op \in {"stop", "complete"}
  /\ calls[c].pc = "put"
  /\ settings' = calls[c].local
  /\ calls' = [calls EXCEPT ![c].pc = "returned", ![c].result = "done"]
  /\ UNCHANGED <<state, ctl, hist, jobState, issued>>

\* ------------------------------------------------------------- constructor
\* the Providers a caller may hand to the constructor; "undefined" is none
Providers == {"undefined", "TreeProvider"}

\* variant: the constructor takes whatever it is given
ConstructorNoCheck(p, c) ==
  /\ provider = p
  /\ config = c
  /\ pc = "idle"

\* new BatchExecutor(p, c): throws when there is no provider, otherwise
\* stores the provider and the config
Constructor(p, c) ==
  /\ provider = p
  /\ config = c
  /\ pc = IF p = "undefined" THEN "failed" ELSE "idle"

\* the field initialisers of the class
Fields ==
  /\ errors = <<>>
  /\ processed = 0
  /\ traversed = 0
  /\ processingQueue = <<>>
  /\ traversalQueue = <<>>
  /\ processingBatch = <<>>      \* undefined until setState or the first splice
  /\ traversalBatch = <<>>       \* undefined until setState or the first splice
  /\ moreNodes = FALSE
  /\ running = FALSE
  /\ mode = "none"
  /\ tpc = "off"
  /\ ppc = "off"
  /\ tw = <<>>
  /\ pw = <<>>
  /\ result = <<>>
  /\ restored = FALSE
  /\ start = <<>>
  /\ stopped = FALSE
  /\ atStop = <<>>
  /\ attempts = Zero
  /\ requeued = Zero
  /\ procCalls = Zero
  /\ failed = Zero
  /\ travOk = Zero
  /\ procFailed = Zero
  /\ throws = 0
  /\ pulledT = 0
  /\ pulledP = 0

\* -------------------------------------------------------------------- Init
Init ==
  /\ \E p \in Providers : \E c \in Configs : Constructor(p, c)
  /\ Fields
  /\ JobFields

\* ---------------------------------------------------------------- setState
\* The ExecutionState values a caller restores; a field that is absent from
\* the record is a field omitted from the state object.
Snapshots ==
  { <<>>,
    [traversalQueue |-> <<Item(1)>>],
    [traversalQueue |-> <<RetryCopy(Item(1))>>],
    [processingQueue |-> <<Item(2), Item(3)>>],
    [errors |-> <<>>, processed |-> 0, traversed |-> 1,
     traversalQueue |-> <<Item(3)>>, traversalBatch |-> <<Item(2)>>,
     processingQueue |-> <<>>, processingBatch |-> <<Item(1)>>] }

\* variant: the given state is ignored, every field takes its default
FieldAlwaysDefault(s, k, d) == d

\* state.k || d
Field(s, k, d) == IF k \in DOMAIN s THEN s[k] ELSE d

SetState(s) ==
  /\ pc = "idle"
  /\ ~restored
  /\ errors' = Field(s, "errors", <<>>)
  /\ processed' = Field(s, "processed", 0)
  /\ processingQueue' = Field(s, "processingQueue", <<>>)
  /\ traversed' = Field(s, "traversed", 0)
  /\ traversalQueue' = Field(s, "traversalQueue", <<>>)
  /\ processingBatch' = Field(s, "processingBatch", <<>>)
  /\ traversalBatch' = Field(s, "traversalBatch", <<>>)
  /\ restored' = TRUE
  /\ UNCHANGED <<ctl, job, start, stopped, atStop, attempts, requeued, procCalls,
                 failed, travOk, procFailed, throws, pulledT, pulledP>>

\* getState()
GetState ==
  [errors |-> errors, processed |-> processed,
   processingBatch |-> processingBatch, processingQueue |-> processingQueue,
   traversed |-> traversed, traversalBatch |-> traversalBatch,
   traversalQueue |-> traversalQueue]

\* ------------------------------------------------- the two queue processors
\* #startTraversalQueueProcessor from the head of its while loop to its next
\* await: with work queued and the run not stopped, splice the whole queue
\* into traversalBatch and start eachLimit on it; otherwise leave the loop
\* and signal completion (moreNodes = false).
\* variant: the loop head does not look at the running flag
TraversalIgnoresStop(tq, run) == Len(tq) > 0

TraversalContinues(tq, run) == Len(tq) > 0 /\ run

RunTraversalLoop(tq, run, more) ==
  IF TraversalContinues(tq, run)
  THEN /\ traversalBatch' = tq
       /\ traversalQueue' = <<>>
       /\ tw' = StartStages(Len(tq), TraversalLimit, "hasMore")
       /\ attempts' = Plus(attempts, CountIds(tq, Started(Len(tq), TraversalLimit)))
       /\ pulledT' = pulledT + Len(tq)
       /\ tpc' = "batch"
       /\ moreNodes' = more
  ELSE /\ traversalBatch' = traversalBatch
       /\ traversalQueue' = tq
       /\ tw' = <<>>
       /\ attempts' = attempts
       /\ pulledT' = pulledT
       /\ tpc' = "done"
       /\ moreNodes' = FALSE

\* variant: the batch is copied from the queue, which keeps its items
StartProcessingBatchKeepsQueue(pq) ==
  /\ processingBatch' = pq
  /\ processingQueue' = pq
  /\ pw' = StartStages(Len(pq), ProcessLimit, "process")
  /\ procCalls' = Plus(procCalls, CountIds(pq, Started(Len(pq), ProcessLimit)))
  /\ pulledP' = pulledP + Len(pq)
  /\ ppc' = "batch"

\* the splice of #startProcessorQueueProcessor and what follows it up to the
\* next await: a non-empty batch goes to eachLimit
StartProcessingBatch(pq) ==
  /\ processingBatch' = pq
  /\ processingQueue' = <<>>
  /\ pw' = StartStages(Len(pq), ProcessLimit, "process")
  /\ procCalls' = Plus(procCalls, CountIds(pq, Started(Len(pq), ProcessLimit)))
  /\ pulledP' = pulledP + Len(pq)
  /\ ppc' = "batch"

\* #startProcessorQueueProcessor from the head of its while loop to its next
\* await, or to its end (running = false).  `batch` is the value of
\* processingBatch on entry.
\* variant: the loop head looks at the completion signal only
ProcessorIgnoresQueue(more, pq) == more

\* variant: the loop head also polls while the run is flagged running
ProcessorPollsWhileRunning(more, pq) == more \/ running \/ Len(pq) > 0

\* variant: the loop head looks at the queue only
ProcessorIgnoresSignal(more, pq) == Len(pq) > 0

ProcessorContinues(more, pq) == more \/ Len(pq) > 0

RunProcessorLoop(more, pq, batch, run) ==
  IF ProcessorContinues(more, pq)
  THEN /\ running' = run
       /\ IF Len(pq) = 0
          THEN /\ ppc' = "wait"
               /\ processingBatch' = batch
               /\ processingQueue' = pq
               /\ pw' = <<>>
               /\ UNCHANGED <<procCalls, pulledP>>
          ELSE StartProcessingBatch(pq)
  ELSE /\ running' = FALSE
       /\ ppc' = "done"
       /\ processingBatch' = batch
       /\ processingQueue' = pq
       /\ pw' = <<>>
       /\ UNCHANGED <<procCalls, pulledP>>

\* ------------------------------------------------------------ entry points
StartRecord(tq, pq) ==
  [processed |-> processed, traversed |-> traversed, errors |-> errors,
   traversalQueue |-> tq, processingQueue |-> pq,
   traversalBatch |-> traversalBatch, processingBatch |-> processingBatch]

\* variant: traverseTree does not raise moreNodes before starting the loops
TraverseTreeNoSignal(root) ==
  /\ pc = "idle"
  /\ restored => root = <<>>
  /\ mode' = "traverse"
  /\ start' = StartRecord(traversalQueue \o root, processingQueue)
  /\ RunTraversalLoop(traversalQueue \o root, TRUE, FALSE)
  /\ RunProcessorLoop(moreNodes', processingQueue, processingBatch, TRUE)
  /\ pc' = IF running' THEN "waiting" ELSE "joining"
  /\ UNCHANGED <<errors, processed, traversed, config, provider, job, result, restored,
                 stopped, atStop, requeued, failed, travOk, procFailed,
                 throws>>

\* variant: traverseTree starts its counters and its error list afresh
TraverseTreeResetsCounters(root) ==
  /\ pc = "idle"
  /\ restored => root = <<>>
  /\ mode' = "traverse"
  /\ start' = StartRecord(traversalQueue \o root, processingQueue)
  /\ RunTraversalLoop(traversalQueue \o root, TRUE, TRUE)
  /\ RunProcessorLoop(moreNodes', processingQueue, processingBatch, TRUE)
  /\ pc' = IF running' THEN "waiting" ELSE "joining"
  /\ errors' = <<>>
  /\ processed' = 0
  /\ traversed' = 0
  /\ UNCHANGED <<config, provider, job, result, restored, stopped, atStop,
                 requeued, failed, travOk, procFailed, throws>>

\* traverseTree(root) up to its first await; root = <<>> is no argument
TraverseTree(root) ==
  /\ pc = "idle"
  /\ restored => root = <<>>
  /\ mode' = "traverse"
  /\ start' = StartRecord(traversalQueue \o root, processingQueue)
  /\ RunTraversalLoop(traversalQueue \o root, TRUE, TRUE)
  /\ RunProcessorLoop(moreNodes', processingQueue, processingBatch, TRUE)
  /\ pc' = IF running' THEN "waiting" ELSE "joining"
  /\ UNCHANGED <<errors, processed, traversed, config, provider, job, result, restored,
                 stopped, atStop, requeued, failed, travOk, procFailed,
                 throws>>

\* variant: processItems starts the traversal loop as well
ProcessItemsAlsoTraverses(toProcess) ==
  /\ pc = "idle"
  /\ mode' = "process"
  /\ start' = StartRecord(traversalQueue, processingQueue \o toProcess)
  /\ RunTraversalLoop(traversalQueue, TRUE, TRUE)
  /\ RunProcessorLoop(moreNodes', processingQueue \o toProcess,
                      processingBatch, TRUE)
  /\ pc' = IF running' THEN "waiting" ELSE "joining"
  /\ UNCHANGED <<errors, processed, traversed, config, provider, job, result,
                 restored, stopped, atStop, requeued, failed, travOk,
                 procFailed, throws>>

\* processItems(toProcess) up to its first await; toProcess = <<>> is no
\* argument (or an empty list)
ProcessItems(toProcess) ==
  /\ pc = "idle"
  /\ mode' = "process"
  /\ start' = StartRecord(traversalQueue, processingQueue \o toProcess)
  /\ moreNodes' = FALSE
  /\ RunProcessorLoop(FALSE, processingQueue \o toProcess, processingBatch, TRUE)
  /\ pc' = IF running' THEN "waiting" ELSE "joining"
  /\ UNCHANGED <<errors, processed, traversed, traversalQueue, traversalBatch,
                 config, provider, job, tpc, tw, result, restored, stopped, atStop, attempts, 
                 requeued, failed, travOk, procFailed, throws, pulledT>>

\* stop()
Stop ==
  /\ pc \in {"waiting", "joining"}
  /\ ~stopped
  /\ running' = FALSE
  /\ moreNodes' = FALSE
  /\ stopped' = TRUE
  /\ atStop' = [traversalQueue |-> traversalQueue,
                processingQueue |-> processingQueue,
                traversalBatch |-> traversalBatch,
                tpc |-> tpc, ppc |-> ppc, tw |-> tw, pw |-> pw,
                pulledT |-> pulledT, pulledP |-> pulledP]
  /\ UNCHANGED <<state, config, provider, job, pc, mode, tpc, ppc, tw, pw, result, restored,
                 start, attempts, requeued, procCalls, failed, travOk,
                 procFailed, throws, pulledT, pulledP>>

\* the timer of the entry point's while (this.#running) await this.#wait()
MainWake ==
  /\ pc = "waiting"
  /\ pc' = IF running THEN "waiting" ELSE "joining"
  /\ UNCHANGED <<state, moreNodes, running, config, provider, job, mode, tpc, ppc, tw, pw,
                 result, hist>>

\* variant: the entry point returns as soon as running is false
ReturnWithoutJoin ==
  /\ pc = "joining"
  /\ pc' = "returned"
  /\ result' = IF mode = "traverse"
               THEN [errors |-> errors, processed |-> processed,
                     traversed |-> traversed]
               ELSE [errors |-> errors, processed |-> processed]
  /\ moreNodes' = IF mode = "traverse" THEN FALSE ELSE moreNodes
  /\ running' = FALSE
  /\ UNCHANGED <<state, config, provider, job, mode, tpc, ppc, tw, pw, hist>>

\* await donePromise / Promise.all(donePromises) settles, the result is
\* built and the finally block runs
Return ==
  /\ pc = "joining"
  /\ tpc \in {"off", "done"}
  /\ ppc = "done"
  /\ pc' = "returned"
  /\ result' = IF mode = "traverse"
               THEN [errors |-> errors, processed |-> processed,
                     traversed |-> traversed]
               ELSE [errors |-> errors, processed |-> processed]
  /\ moreNodes' = IF mode = "traverse" THEN FALSE ELSE moreNodes
  /\ running' = FALSE
  /\ UNCHANGED <<state, config, provider, job, mode, tpc, ppc, tw, pw, hist>>

\* ------------------------------------------------------------ #traverseNode
\* let canRetry = typeof node.TRAVERSAL_RETRY === 'undefined'
\* variants: the retry marker is never / always taken as absent
NeverRetry(node) == FALSE

AlwaysRetry(node) == TRUE

CanRetry(node) == ~node.TRAVERSAL_RETRY

\* the members eachLimit started in this step
NewlyStarted(w, w1) == {j \in DOMAIN w : w[j] = "queued" /\ w1[j] # "queued"}

\* #traverseNode(node) settles for member i of the traversal batch: eachLimit
\* starts the next member, or resolves when all have settled
TraversalSettle(i) ==
  /\ tw' = Settle(tw, i, "hasMore")
  /\ attempts' = Plus(attempts, CountIds(traversalBatch, NewlyStarted(tw, tw')))
  /\ tpc' = IF AllFinished(tw') THEN "resume" ELSE "batch"

\* variant: getBatch is called whatever hasMore returned
HasMoreIgnored(i) ==
  /\ tpc = "batch"
  /\ tw[i] = "hasMore"
  /\ tw' = [tw EXCEPT ![i] = "getBatch"]
  /\ UNCHANGED <<state, moreNodes, running, config, provider, job, pc, mode, tpc,
                 ppc, pw, result, hist>>

\* await provider.hasMore(node) returns; getBatch is called if it is true,
\* shouldProcess otherwise
HasMoreReturns(i) ==
  /\ tpc = "batch"
  /\ tw[i] = "hasMore"
  /\ tw' = [tw EXCEPT ![i] = IF ProviderHasMore(traversalBatch[i].id)
                             THEN "getBatch" ELSE "shouldProcess"]
  /\ UNCHANGED <<state, moreNodes, running, config, provider, job, pc, mode, tpc,
                 ppc, pw, result, hist>>

\* await provider.getBatch(node) returns; shouldProcess is called
GetBatchReturns(i) ==
  /\ tpc = "batch"
  /\ tw[i] = "getBatch"
  /\ tw' = [tw EXCEPT ![i] = "shouldProcess"]
  /\ UNCHANGED <<state, moreNodes, running, config, provider, job, pc, mode, tpc, ppc, pw,
                 result, hist>>

\* the children #traverseNode holds once hasMore/getBatch are through
\* variant: only the first child of the batch is kept
ChildrenOfFirstOnly(node) ==
  IF ProviderHasMore(node.id) THEN SubSeq(ProviderGetBatch(node.id), 1, 1)
  ELSE <<>>

ChildrenOf(node) ==
  IF ProviderHasMore(node.id) THEN ProviderGetBatch(node.id) ELSE <<>>

\* variant: a node that has children is not asked whether to process it
ShouldProcessSkippedForParents(i) ==
  /\ tpc = "batch"
  /\ tw[i] = "shouldProcess"
  /\ traversalQueue' = traversalQueue \o ChildrenOf(traversalBatch[i])
  /\ processingQueue' = IF ProviderShouldProcess(traversalBatch[i].id)
                           /\ ~ProviderHasMore(traversalBatch[i].id)
                        THEN Append(processingQueue, traversalBatch[i])
                        ELSE processingQueue
  /\ traversed' = traversed + 1
  /\ travOk' = [travOk EXCEPT ![traversalBatch[i].id] = @ + 1]
  /\ TraversalSettle(i)
  /\ UNCHANGED <<errors, processed, processingBatch, traversalBatch, moreNodes,
                 running, config, provider, job, pc, mode, ppc, pw, result, restored, start,
                 stopped, atStop, requeued, procCalls, failed, procFailed, throws,
                 pulledT, pulledP>>

\* await provider.shouldProcess(node) returns: the success path
ShouldProcessReturns(i) ==
  /\ tpc = "batch"
  /\ tw[i] = "shouldProcess"
  /\ traversalQueue' = traversalQueue \o ChildrenOf(traversalBatch[i])
  /\ processingQueue' = IF ProviderShouldProcess(traversalBatch[i].id)
                        THEN Append(processingQueue, traversalBatch[i])
                        ELSE processingQueue
  /\ traversed' = traversed + 1
  /\ travOk' = [travOk EXCEPT ![traversalBatch[i].id] = @ + 1]
  /\ TraversalSettle(i)
  /\ UNCHANGED <<errors, processed, processingBatch, traversalBatch, moreNodes,
                 running, config, provider, job, pc, mode, ppc, pw, result, restored, start,
                 stopped, atStop, requeued, procCalls, failed, procFailed, throws,
                 pulledT, pulledP>>

\* variant: a failure that cannot be retried is logged and dropped
DiscoveryThrowsUnrecorded(i) ==
  /\ tpc = "batch"
  /\ tw[i] \in {"hasMore", "getBatch", "shouldProcess"}
  /\ throws < MaxThrows
  /\ throws' = throws + 1
  /\ failed' = [failed EXCEPT ![traversalBatch[i].id] = @ + 1]
  /\ IF CanRetry(traversalBatch[i])
     THEN /\ traversalQueue' = Append(traversalQueue, RetryCopy(traversalBatch[i]))
          /\ requeued' = [requeued EXCEPT ![traversalBatch[i].id] = @ + 1]
     ELSE UNCHANGED <<traversalQueue, requeued>>
  /\ TraversalSettle(i)
  /\ UNCHANGED <<errors, processed, traversed, processingQueue,
                 processingBatch, traversalBatch, moreNodes, running, config,
                 provider, job, pc, mode, ppc, pw, result, restored, start, stopped,
                 atStop, procCalls, travOk, procFailed, pulledT, pulledP>>

\* variant: the children getBatch returned are enqueued although
\* shouldProcess threw
DiscoveryThrowsKeepsChildren(i) ==
  /\ tpc = "batch"
  /\ tw[i] \in {"hasMore", "getBatch", "shouldProcess"}
  /\ throws < MaxThrows
  /\ throws' = throws + 1
  /\ failed' = [failed EXCEPT ![traversalBatch[i].id] = @ + 1]
  /\ IF CanRetry(traversalBatch[i])
     THEN /\ traversalQueue' =
               Append(traversalQueue
                        \o (IF tw[i] = "shouldProcess"
                            THEN ChildrenOf(traversalBatch[i]) ELSE <<>>),
                      RetryCopy(traversalBatch[i]))
          /\ requeued' = [requeued EXCEPT ![traversalBatch[i].id] = @ + 1]
          /\ errors' = errors
     ELSE /\ errors' = Append(errors, [method |-> "traverse",
                                       node |-> traversalBatch[i]])
          /\ UNCHANGED <<traversalQueue, requeued>>
  /\ TraversalSettle(i)
  /\ UNCHANGED <<processed, traversed, processingQueue, processingBatch,
                 traversalBatch, moreNodes, running, config, provider, job, pc, mode, ppc, pw,
                 result, restored, start, stopped, atStop, procCalls, travOk,
                 procFailed, pulledT, pulledP>>

\* hasMore, getBatch or shouldProcess throws: the catch block
DiscoveryThrows(i) ==
  /\ tpc = "batch"
  /\ tw[i] \in {"hasMore", "getBatch", "shouldProcess"}
  /\ throws < MaxThrows
  /\ throws' = throws + 1
  /\ failed' = [failed EXCEPT ![traversalBatch[i].id] = @ + 1]
  /\ IF CanRetry(traversalBatch[i])
     THEN /\ traversalQueue' = Append(traversalQueue, RetryCopy(traversalBatch[i]))
          /\ requeued' = [requeued EXCEPT ![traversalBatch[i].id] = @ + 1]
          /\ errors' = errors
     ELSE /\ errors' = Append(errors, [method |-> "traverse",
                                       node |-> traversalBatch[i]])
          /\ UNCHANGED <<traversalQueue, requeued>>
  /\ TraversalSettle(i)
  /\ UNCHANGED <<processed, traversed, processingQueue, processingBatch,
                 traversalBatch, moreNodes, running, config, provider, job, pc, mode, ppc, pw,
                 result, restored, start, stopped, atStop, procCalls, travOk,
                 procFailed, pulledT, pulledP>>

\* await eachLimit(traversalBatch, ...) resolves: back to the loop head
TraversalResume ==
  /\ tpc = "resume"
  /\ RunTraversalLoop(traversalQueue, running, moreNodes)
  /\ UNCHANGED <<errors, processed, traversed, processingQueue,
                 processingBatch, running, config, provider, job, pc, mode, ppc, pw, result,
                 restored, start, stopped, atStop, requeued, procCalls, failed,
                 travOk, procFailed, throws,
                 pulledP>>

\* ------------------------------------------------- the processing callback
ProcessingSettle(i) ==
  /\ pw' = Settle(pw, i, "process")
  /\ procCalls' = Plus(procCalls, CountIds(processingBatch, NewlyStarted(pw, pw')))
  /\ ppc' = IF AllFinished(pw') THEN "resume" ELSE "batch"

\* variant: a processed item is counted twice
ProcessReturnsCountsTwice(i) ==
  /\ ppc = "batch"
  /\ pw[i] = "process"
  /\ processed' = processed + 2
  /\ ProcessingSettle(i)
  /\ UNCHANGED <<errors, traversed, processingQueue, traversalQueue,
                 processingBatch, traversalBatch, moreNodes, running, config, provider, job,
                 pc, mode, tpc, tw, result, restored, start, stopped, atStop,
                 attempts, requeued, failed, travOk, procFailed, throws,
                 pulledT, pulledP>>

\* await provider.process(node) returns
ProcessReturns(i) ==
  /\ ppc = "batch"
  /\ pw[i] = "process"
  /\ processed' = processed + 1
  /\ ProcessingSettle(i)
  /\ UNCHANGED <<errors, traversed, processingQueue, traversalQueue,
                 processingBatch, traversalBatch, moreNodes, running, config, provider, job,
                 pc, mode, tpc, tw, result, restored, start, stopped, atStop,
                 attempts, requeued, failed, travOk, procFailed, throws,
                 pulledT, pulledP>>

\* variant: the failure reaches eachLimit, which starts no further member
ProcessThrowsAbortsBatch(i) ==
  /\ ppc = "batch"
  /\ pw[i] = "process"
  /\ throws < MaxThrows
  /\ throws' = throws + 1
  /\ procFailed' = [procFailed EXCEPT ![processingBatch[i].id] = @ + 1]
  /\ errors' = Append(errors, [method |-> "process", node |-> processingBatch[i]])
  /\ pw' = [j \in DOMAIN pw |->
             IF j = i \/ pw[j] = "queued" THEN "finished" ELSE pw[j]]
  /\ ppc' = IF AllFinished(pw') THEN "resume" ELSE "batch"
  /\ UNCHANGED <<processed, traversed, processingQueue, traversalQueue,
                 processingBatch, traversalBatch, moreNodes, running, config, provider, job,
                 pc, mode, tpc, tw, result, restored, start, stopped, atStop,
                 attempts, requeued, procCalls, failed, travOk, pulledT,
                 pulledP>>

\* variant: the failed item is put back on the processing queue
ProcessThrowsRequeues(i) ==
  /\ ppc = "batch"
  /\ pw[i] = "process"
  /\ throws < MaxThrows
  /\ throws' = throws + 1
  /\ procFailed' = [procFailed EXCEPT ![processingBatch[i].id] = @ + 1]
  /\ errors' = Append(errors, [method |-> "process", node |-> processingBatch[i]])
  /\ processingQueue' = Append(processingQueue, processingBatch[i])
  /\ ProcessingSettle(i)
  /\ UNCHANGED <<processed, traversed, traversalQueue,
                 processingBatch, traversalBatch, moreNodes, running, config,
                 provider, job, pc, mode, tpc, tw, result, restored, start, stopped,
                 atStop, attempts, requeued, failed, travOk, pulledT, pulledP>>

\* provider.process(node) throws: the catch block of the callback
ProcessThrows(i) ==
  /\ ppc = "batch"
  /\ pw[i] = "process"
  /\ throws < MaxThrows
  /\ throws' = throws + 1
  /\ procFailed' = [procFailed EXCEPT ![processingBatch[i].id] = @ + 1]
  /\ errors' = Append(errors, [method |-> "process", node |-> processingBatch[i]])
  /\ ProcessingSettle(i)
  /\ UNCHANGED <<processed, traversed, processingQueue, traversalQueue,
                 processingBatch, traversalBatch, moreNodes, running, config, provider, job,
                 pc, mode, tpc, tw, result, restored, start, stopped, atStop,
                 attempts, requeued, failed, travOk, pulledT, pulledP>>

\* await eachLimit(processingBatch, ...) resolves: back to the loop head
ProcessorResume ==
  /\ ppc = "resume"
  /\ RunProcessorLoop(moreNodes, processingQueue, processingBatch, running)
  /\ UNCHANGED <<errors, processed, traversed, traversalQueue, traversalBatch,
                 moreNodes, config, provider, job, pc, mode, tpc, tw, result, restored, start,
                 stopped, atStop, attempts, requeued, failed, travOk,
                 procFailed, throws, pulledT>>

\* variant: while the traversal has not signalled completion the processor
\* goes back to its wait without looking at the queue
ProcessorWakeWaitsForTraversal ==
  /\ ppc = "wait"
  /\ IF moreNodes
     THEN UNCHANGED <<processingBatch, processingQueue, pw, procCalls,
                      pulledP, ppc, running>>
     ELSE IF Len(processingQueue) > 0
     THEN /\ StartProcessingBatch(processingQueue)
          /\ running' = running
     ELSE RunProcessorLoop(moreNodes, <<>>, <<>>, running)
  /\ UNCHANGED <<errors, processed, traversed, traversalQueue, traversalBatch,
                 moreNodes, config, provider, job, pc, mode, tpc, tw, result, restored, start,
                 stopped, atStop, attempts, requeued, failed, travOk,
                 procFailed, throws, pulledT>>

\* await this.#wait() of the processor resolves: the splice that follows it,
\* then eachLimit on a non-empty batch or the loop head again
ProcessorWake ==
  /\ ppc = "wait"
  /\ IF Len(processingQueue) > 0
     THEN /\ StartProcessingBatch(processingQueue)
          /\ running' = running
     ELSE RunProcessorLoop(moreNodes, <<>>, <<>>, running)
  /\ UNCHANGED <<errors, processed, traversed, traversalQueue, traversalBatch,
                 moreNodes, config, provider, job, pc, mode, tpc, tw, result, restored, start,
                 stopped, atStop, attempts, requeued, failed, travOk,
                 procFailed, throws, pulledT>>

\* ---------------------------------------------------------------- the machine
Roots == {<<>>, <<Item(1)>>}

ToProcess == {<<>>, <<Item(2), Item(3)>>}

Next ==
  \/ \E s \in Snapshots : SetState(s)
  \/ \E root \in Roots : TraverseTree(root)
  \/ \E items \in ToProcess : ProcessItems(items)
  \/ Stop
  \/ MainWake
  \/ Return
  \/ \E i \in DOMAIN tw : HasMoreReturns(i)
  \/ \E i \in DOMAIN tw : GetBatchReturns(i)
  \/ \E i \in DOMAIN tw : ShouldProcessReturns(i)
  \/ \E i \in DOMAIN tw : DiscoveryThrows(i)
  \/ TraversalResume
  \/ \E i \in DOMAIN pw : ProcessReturns(i)
  \/ \E i \in DOMAIN pw : ProcessThrows(i)
  \/ ProcessorResume
  \/ ProcessorWake

Spec == Init /\ [][Next]_vars

TypeOK ==
  /\ processed \in Nat
  /\ traversed \in Nat
  /\ moreNodes \in BOOLEAN
  /\ running \in BOOLEAN
  /\ pc \in {"idle", "waiting", "joining", "returned", "failed"}
  /\ provider \in Providers \cup {"FamilyProvider"}
  /\ config \in Configs \cup {FamilyConfig}
  /\ tpc \in {"off", "batch", "resume", "done"}
  /\ ppc \in {"off", "wait", "batch", "resume", "done"}

\* Fair scheduling of the event loop: a settled Provider call, a fired timer
\* or a resolved promise is eventually handled.  The caller's own calls
\* (setState, the entry point, stop) carry no fairness.
EngineNext ==
  \/ MainWake
  \/ Return
  \/ \E i \in DOMAIN tw :
       \/ HasMoreReturns(i) \/ GetBatchReturns(i) \/ ShouldProcessReturns(i)
       \/ DiscoveryThrows(i)
  \/ TraversalResume
  \/ \E i \in DOMAIN pw : ProcessReturns(i) \/ ProcessThrows(i)
  \/ ProcessorResume
  \/ ProcessorWake

FairSpec == Spec /\ WF_vars(EngineNext)

\* Fair scheduling of the processing loop alone: its timer fires and its
\* process calls settle, while nothing is assumed of the traversal's
\* Provider calls (a hasMore or getBatch call may never return).
ProcessingNext ==
  \/ ProcessorWake
  \/ ProcessorResume
  \/ \E i \in DOMAIN pw : ProcessReturns(i) \/ ProcessThrows(i)

ProcessingFairSpec == Spec /\ WF_vars(ProcessingNext)

\* ------------------------------------------------ the 'can traverse tree' run
\* new BatchExecutor(new TreeProvider(), { processBatchSize: 2,
\* traversalBatchSize: 2, waitDuration: 10 })
FamilyInit ==
  /\ Constructor("FamilyProvider", FamilyConfig)
  /\ Fields
  /\ JobFields

\* the familyTree object handed to traverseTree
FamilyTree == <<Item(Min(FamilyIds))>>

\* executor.traverseTree(familyTree) and the event loop that serves it; the
\* TreeProvider of the test never throws and the test never calls stop()
FamilyNext ==
  \/ TraverseTree(FamilyTree)
  \/ MainWake
  \/ Return
  \/ \E i \in DOMAIN tw : HasMoreReturns(i)
  \/ \E i \in DOMAIN tw : GetBatchReturns(i)
  \/ \E i \in DOMAIN tw : ShouldProcessReturns(i)
  \/ TraversalResume
  \/ \E i \in DOMAIN pw : ProcessReturns(i)
  \/ ProcessorResume
  \/ ProcessorWake

FamilySpec == FamilyInit /\ [][FamilyNext]_vars

\* ------------------------------------------------------ the JobHelper alone
\* a JobHelper over the settings of one source, called by MaxCallers
\* concurrent callers (extractor invocations); no BatchExecutor runs
JobInit ==
  /\ Constructor("TreeProvider", NoConfig)
  /\ Fields
  /\ JobFields

JobNext ==
  \/ \E c \in Callers : \E type \in StartArgs : JobStart(c, type)
  \/ \E c \in Callers : JobStartPut(c)
  \/ \E c \in Callers : \E jobId \in JobIds : JobStop(c, jobId)
  \/ \E c \in Callers : \E jobId \in JobIds : JobComplete(c, jobId)
  \/ \E c \in Callers : JobPut(c)

JobSpec == JobInit /\ [][JobNext]_vars

\* ------------------------------------------------------- observation helpers
RECURSIVE SumOver(_, _)
SumOver(f, S) ==
  IF S = {} THEN 0
  ELSE LET x == CHOOSE y \in S : TRUE IN f[x] + SumOver(f, S \ {x})

Total(f) == SumOver(f, DOMAIN f)

ErrorsOf(m) == SelectSeq(errors, LAMBDA e : e.method = m)

ErrorsFor(m, n) == SelectSeq(errors, LAMBDA e : e.method = m /\ e.node.id = n)

IsPrefix(a, b) == Len(a) <= Len(b) /\ SubSeq(b, 1, Len(a)) = a

Returned == pc = "returned"

\* an entry point was called (start holds the run's starting values)
RunStarted == pc \in {"waiting", "joining", "returned"}

\* a traverseTree(root) run on the Provider's tree, from zero counters
FreshTreeRun ==
  /\ mode = "traverse"
  /\ start.traversalQueue = <<Item(1)>>
  /\ start.processingQueue = <<>>
  /\ start.traversed = 0
  /\ start.processed = 0

\* ------------------------------------------------------------------ claims

\* C1: for a finite tree and a Provider none of whose calls throws, when
\* traverseTree(root) returns without stop() having been called, traversed
\* is the number of nodes of the tree and processed is the number of nodes
\* for which shouldProcess is true.
C1_Completion ==
  (Returned /\ FreshTreeRun /\ ~stopped /\ throws = 0)
    => /\ result.traversed = TreeSize
       /\ traversed = TreeSize
       /\ result.processed = Cardinality({n \in Ids : ProviderShouldProcess(n)})
       /\ processed = result.processed

C1_Witness ==
  /\ Returned /\ FreshTreeRun /\ ~stopped /\ throws = 0
  /\ traversed = TreeSize
  /\ processed < traversed

\* C2: under fair scheduling every run that was started eventually returns
\* a result, whatever the Provider's calls do (return or throw), for
\* traverseTree and for processItems, with an empty queue as well.
C2_Terminates == (pc \in {"waiting", "joining"}) ~> (pc = "returned")

C2_Witness ==
  /\ Returned
  /\ mode = "traverse"
  /\ failed[1] = 2
  /\ traversed = 0
  /\ result.errors = errors

\* C3: if process throws for exactly one item, every other item pulled into
\* a processing batch is still processed: at the return processed has grown
\* by the number of pulled items minus one, errors holds exactly one
\* "process" entry, for the failing item, and a result is returned.
C3_ProcessFailureIsolation ==
  (Returned /\ Total(procFailed) = 1)
    => /\ Total(procCalls) = pulledP
       /\ processed = start.processed + pulledP - 1
       /\ Len(ErrorsOf("process")) = 1
       /\ procFailed[ErrorsOf("process")[1].node.id] = 1
       /\ result.processed = processed
       /\ result.errors = errors

C3_Witness ==
  /\ Returned
  /\ Total(procFailed) = 1
  /\ Len(processingBatch) >= 2
  /\ \E i \in DOMAIN processingBatch : procFailed[processingBatch[i].id] = 1
  /\ processed = start.processed + Len(processingBatch) - 1

\* the item with id n entered the run without the retry marker
EnteredUnmarked(n) ==
  /\ RetryCopy(Item(n)) \notin SeqSet(start.traversalQueue)
  /\ RetryCopy(Item(n)) \notin SeqSet(start.traversalBatch)

\* C4: if a discovery call throws on the first traversal attempt of an item
\* that is not retry-marked and the second attempt succeeds, the item is
\* re-enqueued exactly once, is attempted exactly twice, contributes exactly
\* 1 to traversed and adds no entry to errors.
C4_RetryRecovers ==
  (Returned /\ mode = "traverse" /\ ~stopped)
    => /\ \A n \in Ids :
            (failed[n] = 1 /\ EnteredUnmarked(n))
              => /\ requeued[n] = 1
                 /\ attempts[n] = 2
                 /\ travOk[n] = 1
                 /\ ErrorsFor("traverse", n) = <<>>
       /\ traversed = start.traversed + Total(travOk)

C4_Witness ==
  /\ Returned /\ mode = "traverse" /\ ~stopped
  /\ \E n \in Ids : failed[n] = 1 /\ EnteredUnmarked(n) /\ travOk[n] = 1
  /\ Len(errors) = 0
  /\ traversed = TreeSize

\* C5: if discovery throws on the first attempt and on the retry of an item,
\* traversed is not incremented for it, exactly one "traverse" error is
\* recorded for it, and no item is attempted a third time.
C5_RetryIsBounded ==
  RunStarted
    => \A n \in Ids :
         /\ attempts[n] <= 2
         /\ failed[n] = 2
              => /\ travOk[n] = 0
                 /\ Len(ErrorsFor("traverse", n)) = 1
                 /\ ErrorsFor("traverse", n)[1].node = RetryCopy(Item(n))
         /\ traversed = start.traversed + Total(travOk)

C5_Witness ==
  /\ Returned
  /\ \E n \in Ids : failed[n] = 2 /\ attempts[n] = 2 /\ travOk[n] = 0
  /\ Len(errors) = 1

\* stop() was called while the traversal of the root was in flight, before
\* its getBatch had returned
StoppedDuringRoot ==
  /\ stopped
  /\ FreshTreeRun
  /\ atStop.tpc = "batch"
  /\ atStop.traversalBatch = <<Item(1)>>
  /\ atStop.tw[1] \in {"hasMore", "getBatch"}

\* C6: if stop() is called while the traversal of the root is in flight
\* (getBatch pending) and the root's traversal does not throw, the run
\* returns only after that traversal has completed, and the children that
\* getBatch returned are in traversalQueue, not traversed, as getState()
\* shows after the return.  (A root traversal that throws leaves the
\* retry-marked root there instead.)
C6_StopKeepsChildrenQueued ==
  (Returned /\ StoppedDuringRoot)
    => /\ attempts[1] = 1
       /\ travOk[1] + failed[1] = 1
       /\ traversed = travOk[1]
       /\ failed[1] = 0 => GetState.traversalQueue = ProviderGetBatch(1)
       /\ failed[1] = 1 => GetState.traversalQueue = <<RetryCopy(Item(1))>>
       /\ \A n \in Ids \ {1} : attempts[n] = 0
       /\ \A i \in DOMAIN tw : tw[i] = "finished"

C6_Witness ==
  /\ Returned /\ StoppedDuringRoot /\ failed[1] = 0
  /\ Len(GetState.traversalQueue) = 2

\* C7: after stop() neither loop pulls a new batch: the items queued at
\* stop() are still at the head of their queues at the return, and no item
\* was pulled into a traversal or a processing batch after stop().
C7_NoBatchAfterStop ==
  stopped
    => /\ pulledT = atStop.pulledT
       /\ pulledP = atStop.pulledP
       /\ IsPrefix(atStop.traversalQueue, traversalQueue)
       /\ IsPrefix(atStop.processingQueue, processingQueue)

\* C8: after setState with a snapshot whose only non-empty field is
\* processingQueue, processItems() calls process exactly once on each item
\* of that queue and on no other, and returns with processingQueue empty
\* and processed plus the number of process errors equal to the number of
\* restored items.
OnlyProcessingQueueRestored ==
  /\ restored
  /\ mode = "process"
  /\ start.processingQueue # <<>>
  /\ start.traversalQueue = <<>>
  /\ start.traversalBatch = <<>>
  /\ start.processingBatch = <<>>
  /\ start.errors = <<>>
  /\ start.processed = 0
  /\ start.traversed = 0

C8_ResumeProcessing ==
  (Returned /\ OnlyProcessingQueueRestored)
    => /\ procCalls = CountIds(start.processingQueue,
                               DOMAIN start.processingQueue)
       /\ processingQueue = <<>>
       /\ processed + Len(ErrorsOf("process")) = Len(start.processingQueue)
       /\ Len(errors) = Len(ErrorsOf("process"))
       /\ processingBatch = start.processingQueue
       /\ attempts = Zero
       /\ traversed = 0

C8_Witness ==
  /\ Returned /\ OnlyProcessingQueueRestored
  /\ processed = 1
  /\ Len(errors) = 1

\* C9: the items of the traversalBatch / processingBatch fields of a
\* restored state are traversed / processed by the traverseTree() run that
\* follows, so that at the return each is counted or recorded in errors;
\* and with no run in progress the two fields hold only items whose
\* traversal / processing did not complete.
C9_BatchFieldsResumed ==
  (Returned /\ restored /\ mode = "traverse" /\ ~stopped)
    => /\ \A i \in DOMAIN start.traversalBatch :
            attempts[start.traversalBatch[i].id] >= 1
       /\ \A i \in DOMAIN start.processingBatch :
            procCalls[start.processingBatch[i].id] >= 1
       /\ \A i \in DOMAIN GetState.traversalBatch :
            travOk[GetState.traversalBatch[i].id] = 0
       /\ \A i \in DOMAIN GetState.processingBatch :
            procCalls[GetState.processingBatch[i].id] = 0

\* C10: when traverseTree returns and stop() was never called, both queues
\* are empty and every item the traversal fed into the processing queue
\* has been passed to process.
FedToProcessing == {n \in Ids : travOk[n] >= 1 /\ ProviderShouldProcess(n)}

C10_QueuesDrained ==
  (Returned /\ mode = "traverse" /\ ~stopped)
    => /\ traversalQueue = <<>>
       /\ processingQueue = <<>>
       /\ \A n \in FedToProcessing : procCalls[n] >= 1
       /\ pulledP = Len(start.processingQueue) + Total([n \in Ids |->
                      IF ProviderShouldProcess(n) THEN travOk[n] ELSE 0])
       /\ Total(procCalls) = pulledP

C10_Witness ==
  /\ Returned /\ mode = "traverse" /\ ~stopped
  /\ traversalQueue = <<>>
  /\ processingQueue = <<>>
  /\ Cardinality(FedToProcessing) >= 2

\* C11: in every state of a run the number of process calls in flight is at
\* most the configured processLimit and the number of traversals in flight
\* (a node between the call of hasMore and the end of shouldProcess) is at
\* most the configured traversalLimit; with nothing configured at most one
\* of each is in flight.  (With the limit not set the batch size field of
\* the config, if set, is the limit.)
InFlightProcess == Cardinality({i \in DOMAIN pw : pw[i] = "process"})

InFlightTraversals ==
  Cardinality({i \in DOMAIN tw :
                 tw[i] \in {"hasMore", "getBatch", "shouldProcess"}})

ErrorCount(errs, m, n) ==
  Len(SelectSeq(errs, LAMBDA e : e.method = m /\ e.node.id = n))

\* C12: a Provider call that throws never ends the run: a run in progress
\* always has a step of the engine to take, and when it has returned, the
\* returned errors list is the executor's list and holds one entry for every
\* process call that threw and one for every traversal that threw without
\* being re-queued for its retry.
C12_FailuresAreReturned ==
  /\ pc \in {"waiting", "joining"} => ENABLED EngineNext
  /\ Returned =>
       /\ result.errors = errors
       /\ \A n \in NodeIds :
            /\ ErrorCount(errors, "process", n)
                 = ErrorCount(start.errors, "process", n) + procFailed[n]
            /\ ErrorCount(errors, "traverse", n)
                 = ErrorCount(start.errors, "traverse", n)
                   + failed[n] - requeued[n]

C12_Witness ==
  /\ Returned
  /\ mode = "traverse"
  /\ Total(failed) = 2
  /\ Len(result.errors) = 1
  /\ result.errors[1].method = "traverse"

\* C13 as stated: the 'can traverse tree' run returns traversed = 13,
\* processed = 8 and no errors.
C13_ThirteenTraversed ==
  (Returned /\ provider = "FamilyProvider")
    => /\ result.traversed = 13
       /\ result.processed = 8
       /\ result.errors = <<>>

\* C13, amended: the 'can traverse tree' run returns traversed = 16 (the
\* eight objects of the tree and their eight name strings are all nodes),
\* processed = 8 (the name strings) and no errors, with both queues empty.
C13_FamilyTreeTotals ==
  (Returned /\ provider = "FamilyProvider")
    => /\ result.traversed = Cardinality(FamilyIds)
       /\ result.traversed = 16
       /\ result.processed = 8
       /\ result.errors = <<>>
       /\ GetState.traversed = 16
       /\ GetState.processed = 8
       /\ GetState.traversalQueue = <<>>
       /\ GetState.processingQueue = <<>>

C13_Witness ==
  /\ Returned
  /\ provider = "FamilyProvider"
  /\ result.traversed = 16
  /\ \A n \in FamilyStrings : procCalls[n] = 1

\* the seven fields of an ExecutionState, and what an omitted one reads as
StateFields ==
  {"errors", "processed", "traversed", "traversalQueue", "traversalBatch",
   "processingQueue", "processingBatch"}

EmptyOrZero(k) == IF k \in {"processed", "traversed"} THEN 0 ELSE <<>>

\* C14: with no run in progress, right after setState(s) getState() returns
\* for each of the seven fields the value s gives it, and for a field that
\* s omits the empty list (queues, batches, errors) or zero (counters).
C14_SetStateRoundTrip ==
  [][\A s \in Snapshots :
       SetState(s) =>
         \A k \in StateFields :
           GetState'[k] = IF k \in DOMAIN s THEN s[k] ELSE EmptyOrZero(k)]_vars

C14_Witness ==
  /\ pc = "idle"
  /\ restored
  /\ GetState.traversed = 1
  /\ GetState.traversalBatch = <<Item(2)>>
  /\ GetState.processingBatch = <<Item(1)>>

\* C15: the constructor given no Provider (undefined and null are both
\* "undefined" here) throws and leaves no executor, so nothing can be
\* called on it; given a Provider it succeeds, with no config as well.
C15_ProviderRequired ==
  /\ provider = "undefined" <=> pc = "failed"
  /\ pc = "failed" => mode = "none" /\ ~restored /\ result = <<>>
  /\ (provider # "undefined" /\ config = NoConfig) => pc # "failed"

C15_Witness ==
  /\ provider = "undefined"
  /\ pc = "failed"

\* how many members of the sequence q carry the id n
CountIn(q, n) == Cardinality({i \in DOMAIN q : q[i].id = n})

\* how many entries for the id n have entered the processing queue in this
\* run: those it started with (the restored queue and the items given to
\* processItems) and one for each successful traversal of n with
\* shouldProcess true
EnteredProcessing(n) ==
  CountIn(start.processingQueue, n)
    + (IF ProviderShouldProcess(n) THEN travOk[n] ELSE 0)

\* members of the processing batch eachLimit has not started yet
WaitingInBatch(n) ==
  Cardinality({i \in DOMAIN pw : pw[i] = "queued" /\ processingBatch[i].id = n})

\* C16: a process call that threw is not retried: every entry that entered
\* the processing queue is either still waiting (in the queue or in the
\* batch, not started) or was passed to process exactly once, whether the
\* call returned or threw.
C16_ProcessNeverRetried ==
  RunStarted =>
    \A n \in NodeIds :
      /\ procCalls[n] + CountIn(processingQueue, n) + WaitingInBatch(n)
           = EnteredProcessing(n)
      /\ procFailed[n] <= procCalls[n]

C16_Witness ==
  /\ Returned
  /\ \E n \in NodeIds :
       /\ procFailed[n] = 1
       /\ procCalls[n] = 1
       /\ EnteredProcessing(n) = 1
  /\ processingQueue = <<>>

\* C17: a node reaches getBatch only from hasMore, and only when hasMore is
\* true for it; when hasMore is false the attempt goes on to shouldProcess
\* and a traversal that then succeeds adds nothing to the traversal queue.
C17_GetBatchAfterHasMore ==
  [][\A i \in DOMAIN tw' :
       /\ (tw'[i] = "getBatch"
             /\ ~(i \in DOMAIN tw /\ tw[i] = "getBatch"
                    /\ traversalBatch' = traversalBatch))
            => /\ i \in DOMAIN tw
               /\ tw[i] = "hasMore"
               /\ traversalBatch' = traversalBatch
               /\ ProviderHasMore(traversalBatch[i].id)
       /\ (i \in DOMAIN tw /\ tpc = "batch"
             /\ ~ProviderHasMore(traversalBatch[i].id))
            => /\ tw[i] = "hasMore" => tw'[i] \in {"hasMore", "shouldProcess", "finished"}
               /\ (tw[i] = "shouldProcess" /\ tw'[i] = "finished"
                     /\ traversed' = traversed + 1)
                    => traversalQueue' = traversalQueue]_vars

C17_Witness ==
  /\ travOk[1] = 1
  /\ \E i \in DOMAIN tw :
       /\ tw[i] = "shouldProcess"
       /\ ~ProviderHasMore(traversalBatch[i].id)

\* C18: in every step of a run, the step that enters it included,
\* processed and traversed stay or grow by one and errors is extended at
\* its end; traversed grows exactly with a successful traversal, processed
\* only with a process call that returned; the entry point itself changes
\* none of them, so a run continues from the restored values.
C18_CountersMonotone ==
  [][RunStarted' =>
       /\ processed' \in {processed, processed + 1}
       /\ traversed' \in {traversed, traversed + 1}
       /\ IsPrefix(errors, errors')
       /\ traversed' - traversed = Total(travOk') - Total(travOk)
       /\ processed' = processed + 1
            => /\ procFailed' = procFailed
               /\ \E i \in DOMAIN pw : pw[i] = "process" /\ pw'[i] = "finished"
       /\ pc = "idle"
            => processed' = processed /\ traversed' = traversed
               /\ errors' = errors]_vars

C18_Witness ==
  /\ Returned
  /\ restored
  /\ start.traversed = 1
  /\ traversed = 2
  /\ result.traversed = 2

\* how often the id n was pushed onto the traversal queue as a child
Discovered(n) ==
  Total([p \in NodeIds |-> travOk[p] * CountIn(ChildrenOf(Item(p)), n)])

\* C19: after a traverseTree run that stop() ended, the items of
\* traversalQueue and traversalBatch together are, with multiplicity, the
\* items the two held before the run and the children discovered in it,
\* less the items that were counted in traversed or recorded in errors.
C19_UnionPreserved ==
  (Returned /\ mode = "traverse" /\ stopped)
    => \A n \in NodeIds :
         CountIn(GetState.traversalQueue, n) + CountIn(GetState.traversalBatch, n)
           = CountIn(start.traversalQueue, n) + CountIn(start.traversalBatch, n)
             + Discovered(n) - travOk[n] - (failed[n] - requeued[n])

\* C20: a processItems run makes no traversal attempt (no call of hasMore,
\* getBatch or shouldProcess), leaves traversalQueue, traversalBatch and
\* traversed as they were, and when it returns the processing queue is
\* empty and every item of the queue it started with (the restored queue
\* followed by the given items) has been passed to process.
C20_ProcessItemsFrame ==
  mode = "process" =>
    /\ Total(attempts) = 0
    /\ tw = <<>> /\ tpc = "off"
    /\ Total(travOk) = 0 /\ Total(failed) = 0
    /\ traversalQueue = start.traversalQueue
    /\ traversalBatch = start.traversalBatch
    /\ traversed = start.traversed
    /\ Returned =>
         /\ processingQueue = <<>>
         /\ \A n \in NodeIds : procCalls[n] = CountIn(start.processingQueue, n)

C20_Witness ==
  /\ Returned
  /\ mode = "process"
  /\ restored
  /\ processed = 4
  /\ traversalQueue = <<>>

\* the jobs of a type that start has returned and for which neither stop
\* nor complete has been called
Unfinished(type) == {j \in JobIds : j[1] = type /\ jobState[j] = "started"}

\* C21: under every interleaving of start, stop and complete calls on one
\* source, at most one job of each type is started and unfinished (a start
\* that finds one is rejected with 409).
C21_SingleFlight == \A type \in JobTypes : Cardinality(Unfinished(type)) <= 1

\* C22: when the write of a stop or complete call reaches the store and the
\* call's job id is not the current job of its type there, the stored
\* currentJobId, updateJobId, currentJobStatus, cursor and lastJobDone stay
\* as they are.
C22_StaleJobChangesNothing ==
  [][\A c \in Callers :
       (/\ calls[c].op \in {"stop", "complete"}
        /\ calls[c].pc = "put"
        /\ calls'[c].pc = "returned"
        /\ ~IsCurrentRunningJob(settings, calls[c].arg))
         => settings' = settings]_vars

\* C23: the step that extracts a batch makes it the exact content of the
\* queue at that moment and empties the queue in the same step; while the
\* batch is in flight its members do not change, so whatever is enqueued
\* meanwhile waits on the queue for a later batch.
C23_SnapshotThenDrain ==
  [][/\ pulledT' # pulledT
          => /\ traversalBatch' = IF pc = "idle" THEN start'.traversalQueue
                                  ELSE traversalQueue
             /\ traversalQueue' = <<>>
             /\ pulledT' = pulledT + Len(traversalBatch')
     /\ pulledP' # pulledP
          => /\ processingBatch' = IF pc = "idle" THEN start'.processingQueue
                                   ELSE processingQueue
             /\ processingQueue' = <<>>
             /\ pulledP' = pulledP + Len(processingBatch')
     /\ (tpc = "batch" /\ tpc' = "batch")
          => traversalBatch' = traversalBatch /\ DOMAIN tw' = DOMAIN tw
     /\ (ppc = "batch" /\ ppc' = "batch")
          => processingBatch' = processingBatch /\ DOMAIN pw' = DOMAIN pw]_vars

C23_Witness ==
  /\ mode = "traverse"
  /\ ppc = "batch"
  /\ InFlightProcess > 0
  /\ Len(processingQueue) > 0
  /\ \A i \in DOMAIN processingQueue :
       CountIn(processingBatch, processingQueue[i].id) = 0

\* C24: in a traverseTree run without stop() the processing loop has ended
\* only if the traversal loop has ended, with no traversal left in flight
\* and an empty processing queue, every entry that entered the queue
\* having been passed to process.
C24_ProcessorOutlivesTraversal ==
  (mode = "traverse" /\ ~stopped /\ ppc = "done")
    => /\ tpc = "done"
       /\ InFlightTraversals = 0
       /\ processingQueue = <<>>
       /\ \A n \in NodeIds : procCalls[n] = EnteredProcessing(n)

C24_Witness ==
  /\ mode = "traverse" /\ ~stopped /\ ppc = "done"
  /\ Total(travOk) = TreeSize
  /\ \A n \in Ids : ProviderShouldProcess(n) => procCalls[n] = 1

\* C25: every traversal attempt that ends without a throw ends at
\* shouldProcess, whatever hasMore returned; it appends the children
\* getBatch returned (none when hasMore was false) to the traversal queue,
\* appends the node to the processing queue exactly if shouldProcess is
\* true, and adds one to traversed.
C25_ShouldProcessIndependent ==
  [][\A i \in DOMAIN tw :
       (/\ tpc = "batch"
        /\ tw[i] # "finished"
        /\ tw'[i] = "finished"
        /\ failed' = failed)
         => /\ tw[i] = "shouldProcess"
            /\ traversed' = traversed + 1
            /\ traversalQueue'
                 = traversalQueue
                     \o (IF ProviderHasMore(traversalBatch[i].id)
                         THEN ProviderGetBatch(traversalBatch[i].id)
                         ELSE <<>>)
            /\ processingQueue'
                 = IF ProviderShouldProcess(traversalBatch[i].id)
                   THEN Append(processingQueue, traversalBatch[i])
                   ELSE processingQueue]_vars

C25_Witness ==
  /\ \E n \in Ids :
       /\ ProviderHasMore(n) /\ ProviderShouldProcess(n)
       /\ travOk[n] = 1
       /\ CountIn(processingQueue, n) = 1
       /\ \A k \in DOMAIN ProviderGetBatch(n) :
            CountIn(traversalQueue, ProviderGetBatch(n)[k].id) = 1
  /\ traversed = 1

\* C26: when a run has returned, stopped or not, no traversal and no
\* process call is in flight or waiting in a batch, and every call that
\* was started has its outcome on record: each traversal attempt is a
\* counted success or a failure, each process call a counted success or an
\* error entry.
C26_NothingInFlightAtReturn ==
  Returned =>
    /\ tpc \in {"off", "done"} /\ ppc = "done"
    /\ AllFinished(tw) /\ AllFinished(pw)
    /\ \A n \in NodeIds : attempts[n] = travOk[n] + failed[n]
    /\ traversed = start.traversed + Total(travOk)
    /\ Total(procCalls) = (processed - start.processed) + Total(procFailed)
    /\ Len(errors) = Len(start.errors) + Total(procFailed)
                       + Total(failed) - Total(requeued)

C26_Witness ==
  /\ Returned /\ stopped
  /\ atStop.tpc = "batch"
  /\ \E i \in DOMAIN atStop.tw :
       /\ atStop.tw[i] \in {"hasMore", "getBatch", "shouldProcess"}
       /\ travOk[atStop.traversalBatch[i].id] = 1
  /\ atStop.ppc = "batch"
  /\ traversed > start.traversed
  /\ processed > start.processed

\* entries of the processing side that no process call has been started for
Pending ==
  Len(processingQueue) + Cardinality({i \in DOMAIN pw : pw[i] = "queued"})

\* C27: with the processing loop scheduled fairly and nothing assumed of the
\* traversal's calls, a run that is not stopped reaches again and again a
\* state where nothing waits on the processing queue or in its batch.  An
\* entry leaves the queue only into a batch (a wake of the processor that
\* finds entries pulls them at once) and leaves the waiting part of the
\* batch only by being passed to process, so every entry put on the
\* processing queue is eventually passed to process, whether or not the
\* traversal goes on.
C27_ProcessingProgress ==
  /\ [][/\ (ppc = "wait" /\ ppc' # "wait" /\ processingQueue # <<>>)
            => (ppc' = "batch" /\ processingBatch' = processingQueue)
        /\ (pc \in {"waiting", "joining"}
              /\ ~IsPrefix(processingQueue, processingQueue'))
            => (processingBatch' = processingQueue /\ processingQueue' = <<>>)
        /\ \A i \in DOMAIN pw :
             (ppc' = "batch" /\ pw[i] = "queued" /\ pw'[i] # "queued")
               => /\ pw'[i] = "process"
                  /\ procCalls'[processingBatch[i].id]
                       = procCalls[processingBatch[i].id] + 1]_vars
  /\ []<>(~(pc \in {"waiting", "joining"}) \/ stopped \/ Pending = 0)

C27_Witness ==
  /\ mode = "traverse"
  /\ tpc = "batch"
  /\ \E i \in DOMAIN tw : tw[i] = "hasMore"
  /\ InFlightProcess > 0
  /\ ~stopped

\* the members of a batch that eachLimit has started are a prefix of it
PrefixStarted(w) ==
  \A i, j \in DOMAIN w : (i < j /\ w[j] # "queued") => w[i] # "queued"

\* C28: a batch is the queue in its order, its members are started in
\* index order, and everything enqueued (children, items to process, the
\* copy of a node to retry) goes to the end of its queue; with a limit of
\* one the member in flight is therefore the first that has not finished.
C28_Fifo ==
  [][/\ PrefixStarted(tw') /\ PrefixStarted(pw')
     /\ (RunStarted /\ pulledT' = pulledT)
          => IsPrefix(traversalQueue, traversalQueue')
     /\ (RunStarted /\ pulledP' = pulledP)
          => IsPrefix(processingQueue, processingQueue')
     /\ (RunStarted /\ pulledT' # pulledT) => traversalBatch' = traversalQueue
     /\ (RunStarted /\ pulledP' # pulledP) => processingBatch' = processingQueue
     /\ requeued' # requeued
          => \E i \in DOMAIN tw :
               /\ tw[i] # "finished" /\ tw'[i] = "finished"
               /\ traversalQueue'
                    = Append(traversalQueue, RetryCopy(traversalBatch[i]))
     /\ config = NoConfig
          => /\ \A j \in DOMAIN pw' :
                  pw'[j] = "process" => \A i \in 1..(j - 1) : pw'[i] = "finished"
             /\ \A j \in DOMAIN tw' :
                  tw'[j] \in {"hasMore", "getBatch", "shouldProcess"}
                    => \A i \in 1..(j - 1) : tw'[i] = "finished"]_vars

C28_Witness ==
  /\ config = NoConfig
  /\ Len(processingBatch) = 4
  /\ pw = <<"finished", "finished", "process", "queued">>

\* members of the traversal batch whose traversal has not ended
UnfinishedInBatch(n) ==
  Cardinality({i \in DOMAIN tw : tw[i] # "finished" /\ traversalBatch[i].id = n})

ProcessInFlight(n) ==
  Cardinality({i \in DOMAIN pw : pw[i] = "process" /\ processingBatch[i].id = n})

\* C29: in every state of a run, for each item, the entries that entered
\* the traversal queue (initial, discovered, re-queued for a retry) are
\* those on the queue, those unfinished in the batch, the counted
\* successes and the failures; the entries that entered the processing
\* queue are those on the queue, those unfinished in the batch, the counted
\* successes and the failures.  traversed, processed and errors count
\* exactly the successes and the terminal failures.
C29_Conservation ==
  RunStarted =>
    /\ \A n \in NodeIds :
         /\ CountIn(traversalQueue, n) + UnfinishedInBatch(n)
               + travOk[n] + failed[n]
              = CountIn(start.traversalQueue, n) + Discovered(n) + requeued[n]
         /\ ErrorCount(errors, "traverse", n)
              = ErrorCount(start.errors, "traverse", n) + failed[n] - requeued[n]
         /\ ErrorCount(errors, "process", n)
              = ErrorCount(start.errors, "process", n) + procFailed[n]
         /\ procCalls[n] >= ProcessInFlight(n) + procFailed[n]
    /\ traversed = start.traversed + Total(travOk)
    /\ processed - start.processed
         = Total([n \in NodeIds |->
                    procCalls[n] - ProcessInFlight(n) - procFailed[n]])
    /\ Total([n \in NodeIds |-> EnteredProcessing(n)])
         = Len(processingQueue)
           + Total([n \in NodeIds |-> WaitingInBatch(n) + ProcessInFlight(n)])
           + (processed - start.processed) + Total(procFailed)

C29_Witness ==
  /\ pc = "waiting"
  /\ Total(travOk) >= 1
  /\ Total(failed) >= 1
  /\ InFlightProcess >= 1
  /\ InFlightTraversals >= 1
  /\ Len(traversalQueue) >= 1

\* in a run on the Provider's tree from its root, every node has been
\* traversed with success at most once: its children were enqueued and it
\* entered the processing queue at most once
AtMostOnce ==
  (RunStarted /\ FreshTreeRun) => \A n \in Ids : travOk[n] <= 1

\* C30: a traversal attempt that throws puts nothing on the processing
\* queue, counts nothing and enqueues no child: it leaves the traversal
\* queue as it is or appends the node's retry copy; so, whatever the
\* retries, a node's children are enqueued at most once and the node
\* enters the processing queue at most once.
C30_NoPartialEffect ==
  [][/\ failed' # failed
          => /\ processingQueue' = processingQueue
             /\ traversed' = traversed
             /\ travOk' = travOk
             /\ \/ traversalQueue' = traversalQueue
                \/ \E i \in DOMAIN traversalBatch :
                     traversalQueue'
                       = Append(traversalQueue, RetryCopy(traversalBatch[i]))
     /\ AtMostOnce']_vars

C30_Witness ==
  /\ Returned /\ FreshTreeRun
  /\ failed[1] = 1
  /\ travOk[1] = 1
  /\ \A n \in Ids : travOk[n] = 1
  /\ procCalls[1] = 1

====
